---- MODULE Spec2Model ----
(***************************************************************************)
(* A model of dotbot/sailbot_simulator.py: the simulated sail boat         *)
(* (SailBotSim) and the fake serial interface that drives it               *)
(* (SailBotSimSerialInterface): the thread's run() loop, and write()       *)
(* called from another thread.                                             *)
(*                                                                         *)
(* Representation of the program's values:                                 *)
(*   - a str is a sequence of one-character strings;                       *)
(*   - a 64-bit address value is its 16 hexadecimal digits (0..15), most   *)
(*     significant first (it does not fit TLC's integers);                 *)
(*   - x and y (floats, metres) are integers in millimetres;               *)
(*   - latitude and longitude (floats, degrees) are integers in 1e-7       *)
(*     degree; the float products and quotients of the two conversions are *)
(*     computed exactly on integers and rounded to the nearest unit;       *)
(*   - time.time() is an integer in quarters of a second;                  *)
(*   - a frame is a sequence of symbols, one per field of the wire format, *)
(*     each symbol a sequence of integers; the serial interface hands them *)
(*     to the callback one at a time, as it does the bytes.                *)
(***************************************************************************)
EXTENDS Integers, Sequences, FiniteSets, TLC

VARIABLES
    sailbots,      \* self.sailbots: the sequence of SailBotSim objects
    sink,          \* what self.callback has received, in order
    clock,         \* the value time.time() returns now
    lpc,           \* run(): where the thread is
    li,            \* run(): index of `sailbot` in the for loop it is in
    outbuf,        \* run(): the symbols of the current frame not yet sent
    next_time,     \* run(): local next_time
    current_time,  \* run(): local current_time
    start,         \* history: time.time() as read at line 134
    npasses,       \* history: passes of lines 139-143 begun
    tickFrom,      \* history: (x, y) of the vehicle when its current tick began
    cmdPairs,      \* history: (rudder, sail) pairs of the move commands applied
    wpc,           \* write(): where the calling thread is
    wi,            \* write(): index of `sailbot` in its for loop
    wbuf,          \* write(): the argument bytes_
    payload,       \* decode_serial_input(): local payload
    invoked,       \* history: decode_serial_input calls of the current write
    nwrites,       \* history: write() calls made
    stopInvoked,   \* history: the caller has asked the interface to stop
    mark,          \* history (vehicle runs): the state a run of ticks began in
    since,         \* history (vehicle runs): ticks since mark
    moved,         \* history (vehicle runs): ticks that moved the boat
    lastOp,        \* history (vehicle runs): the last operation and its input
    conv           \* conversion runs: the coordinates given and those computed

vars == <<sailbots, sink, clock, lpc, li, outbuf, next_time, current_time,
          start, npasses, tickFrom, cmdPairs, wpc, wi, wbuf, payload,
          invoked, nwrites, stopInvoked, mark, since, moved, lastOp, conv>>

(***************************************************************************)
(* Bounds of the model.                                                    *)
(***************************************************************************)
\* The clock stops advancing here.
MaxTime == 4
\* write() calls per behaviour.
MaxWrites == 2
\* Ticks with a nonzero slider per behaviour of the vehicle specification.
MaxMoves == 1

(***************************************************************************)
(* Program constants.                                                      *)
(***************************************************************************)
\* delta_t = 0.5 s, in quarters of a second.
delta_t == 2
earth_radius_km == 6371
\* 48.825908 and 2.406433 degrees, in 1e-7 degree.
origin_coord_latitude == 488259080
origin_coord_longitude == 24064330
\* 0.658139837, to eight places, times 1e8.
cos_phi_0 == 65813984
true_wind_angle == 30
\* 48.832313 and 2.412689 degrees, in 1e-7 degree.
initial_latitude == 488323130
initial_longitude == 24126890
\* math.pi, to seven places, times 1e7.
math_pi == 31415927

(***************************************************************************)
(* Integer arithmetic that stays within TLC's 32-bit integers.             *)
(***************************************************************************)
\* <<q, r>> with a * b = q * c + r and 0 <= r < c, for b >= 0 and
\* 0 < c <= 10^8, taking b four bits at a time.
RECURSIVE MulDivMod(_, _, _)
MulDivMod(a, b, c) ==
    IF b = 0 THEN <<0, 0>>
    ELSE CHOOSE qr \in
             { LET d  == b % 16
                   t1 == 16 * h[2]
                   t2 == d * (a % c)
                   r  == (t1 % c) + (t2 % c)
               IN  <<16 * h[1] + (t1 \div c) + d * (a \div c) + (t2 \div c)
                       + (IF r >= c THEN 1 ELSE 0),
                     IF r >= c THEN r - c ELSE r>>
               : h \in {MulDivMod(a, b \div 16, c)} } : TRUE

\* a * b / c rounded to the nearest integer (halves upwards).
MulDiv(a, b, c) ==
    CHOOSE m \in { qr[1] + (IF 2 * qr[2] >= c THEN 1 ELSE 0)
                     : qr \in {MulDivMod(v, b, c) : v \in {a}} } : TRUE

\* a / c rounded to the nearest integer.
DivRound(a, c) == (a + c \div 2) \div c

(***************************************************************************)
(* dotbot.protocol and dotbot.hdlc: the frame codec, and the defaults of   *)
(* the dotbot package.                                                     *)
(***************************************************************************)
GATEWAY_ADDRESS_DEFAULT ==
    <<"0","0","0","0","0","0","0","0","0","0","0","0","0","0","0","0">>
SWARM_ID_DEFAULT == <<"0","0","0","0">>
PROTOCOL_VERSION == 8
ApplicationType_SailBot == 1
CMD_MOVE_RAW == 0
CMD_RGB_LED == 1
ADVERTISEMENT == 4
SAILBOT_DATA == 10
\* The frame delimiter (0x7E on the wire): byte stuffing keeps it out of the
\* payload, so it is a symbol that no field of a payload equals.
HDLC_FLAG == <<-1>>

\* The frame check sequence of a payload: a symbol that depends on every
\* field of it (the last integer of each).
Fcs(body) == [i \in 1..Len(body) |-> body[i][Len(body[i])]]

\* hdlc_encode(payload): flag, payload, check sequence, flag.
hdlc_encode(body) == <<HDLC_FLAG>> \o body \o <<Fcs(body)>> \o <<HDLC_FLAG>>

\* hdlc_decode(frame): the payload, or a failure ([ok |-> FALSE]) when the
\* frame is truncated, not delimited, or its check sequence does not match.
hdlc_decode(frame) ==
    LET n    == Len(frame)
        body == SubSeq(frame, 2, n - 2)
    IN  IF /\ n >= 3
           /\ frame[1] = HDLC_FLAG
           /\ frame[n] = HDLC_FLAG
           /\ \A i \in 2..(n - 1) : frame[i] # HDLC_FLAG
           /\ frame[n - 1] = Fcs(body)
        THEN [ok |-> TRUE, body |-> body]
        ELSE [ok |-> FALSE, body |-> <<>>]

\* The number of value fields of a payload type (-1: not a payload type).
NumValues(t) ==
    CASE t = CMD_MOVE_RAW  -> 2
      [] t = CMD_RGB_LED   -> 3
      [] t = ADVERTISEMENT -> 0
      [] t = SAILBOT_DATA  -> 4
      [] OTHER             -> -1

\* ProtocolPayload(header, payload_type, values).to_bytes()
to_bytes(header, payload_type, values) ==
    <<header.destination, header.source, header.swarm_id,
      <<header.application>>, <<header.version>>, <<payload_type>>>>
    \o [i \in 1..Len(values) |-> <<values[i]>>]

\* ProtocolPayload.from_bytes(hdlc_decode(frame)): the payload, or a failure.
from_bytes(dec) ==
    LET b  == dec.body
        t  == b[6][1]
        no == [ok |-> FALSE,
               header |-> [destination |-> <<>>, source |-> <<>>],
               payload_type |-> -1, values |-> <<>>]
    IN  IF ~dec.ok \/ Len(b) < 6 THEN no
        ELSE IF Len(b[6]) # 1 \/ Len(b) # 6 + NumValues(t) THEN no
        ELSE IF \E i \in 7..Len(b) : Len(b[i]) # 1 THEN no
        ELSE [ok |-> TRUE,
              header |-> [destination |-> b[1], source |-> b[2]],
              payload_type |-> t,
              values |-> [i \in 1..(Len(b) - 6) |-> b[6 + i][1]]]

(***************************************************************************)
(* Python's int(s, 16) and hex(n)[2:] on the digits of a 64-bit value.     *)
(***************************************************************************)
HexChars == <<"0","1","2","3","4","5","6","7","8","9","a","b","c","d","e","f">>
UpperChars == <<"0","1","2","3","4","5","6","7","8","9","A","B","C","D","E","F">>

HexDigit(ch) ==
    CHOOSE d \in 0..15 : HexChars[d + 1] = ch \/ UpperChars[d + 1] = ch

\* int(s, 16), as 16 digits.
IntHex(s) ==
    [i \in 1..16 |-> IF i <= 16 - Len(s) THEN 0 ELSE HexDigit(s[i - (16 - Len(s))])]

RECURSIVE StripZeros(_)
StripZeros(ds) ==
    IF Len(ds) > 1 /\ Head(ds) = 0 THEN StripZeros(Tail(ds)) ELSE ds

\* hex(n)[2:]: lower case, no leading zeros.
HexStr(n) ==
    LET ds == StripZeros(n) IN [i \in 1..Len(ds) |-> HexChars[ds[i] + 1]]

(***************************************************************************)
(* SailBotSim                                                              *)
(***************************************************************************)
\* x = ((longitude - origin) * earth_radius_km * cos_phi_0 * math.pi) / 0.180
\* y = ((latitude - origin) * earth_radius_km * math.pi) / 0.180
\* (1e-7 degree times km, over 1800, is mm)
convert_geographical_to_cartesian(latitude, longitude) ==
    LET sx == MulDiv(MulDiv((longitude - origin_coord_longitude) * earth_radius_km,
                            cos_phi_0, 100000000),
                     math_pi, 10000000)
        sy == MulDiv((latitude - origin_coord_latitude) * earth_radius_km,
                     math_pi, 10000000)
    IN  <<DivRound(sx, 1800), DivRound(sy, 1800)>>

\* latitude = (((y * 0.180) / math.pi) / earth_radius_km) + origin
\* longitude = (((x * 0.180) / math.pi / cos_phi_0) / earth_radius_km) + origin
\* (mm times 1800, over km, is 1e-7 degree)
convert_cartesian_to_geographical(x, y) ==
    LET ty == MulDiv(y * 1800, 10000000, math_pi)
        tx == MulDiv(MulDiv(x * 1800, 10000000, math_pi), 100000000, cos_phi_0)
    IN  <<DivRound(ty, earth_radius_km) + origin_coord_latitude,
          DivRound(tx, earth_radius_km) + origin_coord_longitude>>

\* SailBotSim.__init__
SailBotSim(address) ==
    LET xy == convert_geographical_to_cartesian(initial_latitude, initial_longitude)
    IN  [address       |-> address,
         latitude      |-> initial_latitude,
         longitude     |-> initial_longitude,
         wind_angle    |-> 0,
         direction     |-> 0,
         x             |-> xy[1],
         y             |-> xy[2],
         rudder_slider |-> 0,
         sail_slider   |-> 0,
         controller    |-> "MANUAL"]

\* SailBotSim.header
header(bot) ==
    [destination |-> IntHex(GATEWAY_ADDRESS_DEFAULT),
     source      |-> IntHex(bot.address),
     swarm_id    |-> IntHex(SWARM_ID_DEFAULT),
     application |-> ApplicationType_SailBot,
     version     |-> PROTOCOL_VERSION]

\* state_space_model, line by line (a slider is in metres, x and y in mm).
Line58(bot) == [bot EXCEPT !.x = bot.x + 1000 * bot.rudder_slider]

\* Line 59 as it would be if the tick used the sail slider up.
Line59Consuming(bot) ==
    [bot EXCEPT !.y = bot.y + 1000 * bot.sail_slider, !.sail_slider = 0]

Line59(bot) == [bot EXCEPT !.y = bot.y + 1000 * bot.sail_slider]

Line60(bot) ==
    LET ll == convert_cartesian_to_geographical(bot.x, bot.y)
    IN  [bot EXCEPT !.latitude = ll[1], !.longitude = ll[2]]

\* Line 62 as it would be with a step of 20 degrees.
Line62Twenty(bot) == [bot EXCEPT !.direction = (bot.direction + 20) % 360]

Line62(bot) == [bot EXCEPT !.direction = (bot.direction + 10) % 360]

\* Line 63 as it would be without the modulo.
Line63Unreduced(bot) ==
    [bot EXCEPT !.wind_angle = -bot.direction + true_wind_angle]

Line63(bot) ==
    [bot EXCEPT !.wind_angle = (-bot.direction + true_wind_angle) % 360]

\* state_space_model as it would be with line 63 ahead of line 62.
state_space_model_stale(bot) == Line62(Line63(Line60(Line59(Line58(bot)))))

state_space_model(bot) == Line63(Line62(Line60(Line59(Line58(bot)))))

\* Python's int() of a float: truncation towards zero.
Trunc(a, d) == IF a >= 0 THEN a \div d ELSE -((-a) \div d)

\* encode_serial_output as it would be with latitude and longitude exchanged.
encode_serial_output_swapped(bot) ==
    hdlc_encode(to_bytes(header(bot), SAILBOT_DATA,
                         <<bot.direction, Trunc(bot.longitude, 10),
                           Trunc(bot.latitude, 10), bot.wind_angle>>))

\* encode_serial_output
encode_serial_output(bot) ==
    hdlc_encode(to_bytes(header(bot), SAILBOT_DATA,
                         <<bot.direction, Trunc(bot.latitude, 10),
                           Trunc(bot.longitude, 10), bot.wind_angle>>))

\* advertise as it would be if it sent the telemetry payload.
advertise_telemetry(bot) ==
    hdlc_encode(to_bytes(header(bot), SAILBOT_DATA,
                         <<bot.direction, Trunc(bot.latitude, 10),
                           Trunc(bot.longitude, 10), bot.wind_angle>>))

\* advertise
advertise(bot) == hdlc_encode(to_bytes(header(bot), ADVERTISEMENT, <<>>))

\* update, as one step: the vehicle after it (the frame it returns is
\* encode_serial_output of that vehicle).
update(bot) ==
    IF bot.controller = "MANUAL" THEN state_space_model(bot) ELSE bot

\* Line 74 as it would be without the address filter.
AddressMatchesAny(bot, pl) == pl.ok

\* decode_serial_input, line 74: the address filter.
AddressMatches(bot, pl) == bot.address = HexStr(pl.header.destination)

\* Line 75 as it would be without the test of the payload type.
IsMoveAny(pl) == pl.ok

\* line 75
IsMove(pl) == pl.payload_type = CMD_MOVE_RAW

\* Lines 77 and 78 as they would be if the byte were stored as it is.
SignedRaw(v) == v

\* The two's-complement reading of a byte in lines 77 and 78.
Signed(v) == IF v > 127 THEN v - 256 ELSE v

Line76(bot) == [bot EXCEPT !.controller = "MANUAL"]

Line77(bot, pl) == [bot EXCEPT !.rudder_slider = Signed(pl.values[1])]

Line78(bot, pl) == [bot EXCEPT !.sail_slider = Signed(pl.values[2])]

\* decode_serial_input, as one step: [raised, bot], raised when line 72
\* raises, bot the vehicle after the call.
decode_serial_input(bot, frame) ==
    LET pl == from_bytes(hdlc_decode(frame))
    IN  IF ~pl.ok THEN [raised |-> TRUE, bot |-> bot]
        ELSE IF AddressMatches(bot, pl) /\ IsMove(pl)
        THEN [raised |-> FALSE, bot |-> Line78(Line77(Line76(bot), pl), pl)]
        ELSE [raised |-> FALSE, bot |-> bot]

(***************************************************************************)
(* Inputs: what a caller may hand to write() / decode_serial_input().      *)
(***************************************************************************)
\* SailBotSimSerialInterface.__init__: the addresses of self.sailbots.
Addresses ==
    << <<"1","2","3","4","5","6","7","8","9","0","1","2","3","4","5","6">> >>

\* An address no vehicle has.
OtherAddress ==
    <<"1","2","3","4","5","6","7","8","9","0","1","2","3","4","5","7">>

\* The bytes (left_x, right_y) the move commands of the model carry.
RawPairs == {<<0, 0>>, <<127, 128>>, <<128, 127>>, <<200, 50>>, <<50, 200>>,
             <<255, 255>>}

\* A well-formed frame from the gateway to `dest`.
InFrame(dest, payload_type, values) ==
    hdlc_encode(to_bytes([destination |-> IntHex(dest),
                          source      |-> IntHex(GATEWAY_ADDRESS_DEFAULT),
                          swarm_id    |-> IntHex(SWARM_ID_DEFAULT),
                          application |-> ApplicationType_SailBot,
                          version     |-> PROTOCOL_VERSION],
                         payload_type, values))

MoveFrame(dest, left_x, right_y) == InFrame(dest, CMD_MOVE_RAW, <<left_x, right_y>>)

RgbFrame(dest) == InFrame(dest, CMD_RGB_LED, <<255, 0, 0>>)

\* A frame cut short: its last two symbols are missing.
Truncated(frame) == SubSeq(frame, 1, Len(frame) - 2)

\* A frame with its first value changed and its check sequence left as it was.
Corrupted(frame) == [frame EXCEPT ![8] = <<(frame[8][1] + 1) % 256>>]

WellFormedBuffers ==
    {MoveFrame(Addresses[1], p[1], p[2]) : p \in RawPairs}
    \cup {MoveFrame(OtherAddress, 200, 127), MoveFrame(GATEWAY_ADDRESS_DEFAULT, 128, 0),
          RgbFrame(Addresses[1]), RgbFrame(OtherAddress)}

MalformedBuffers ==
    {Truncated(MoveFrame(Addresses[1], 200, 127)),
     Corrupted(MoveFrame(Addresses[1], 200, 127)),
     <<>>}

InboundBuffers == WellFormedBuffers \cup MalformedBuffers

\* What the caller of write() sends while the thread runs: a move command
\* for the vehicle, one for another address, another payload type, and the
\* malformed buffers.
WriteBuffers ==
    {MoveFrame(Addresses[1], 200, 50), MoveFrame(OtherAddress, 200, 127),
     RgbFrame(Addresses[1])} \cup (MalformedBuffers \ {<<>>})

(***************************************************************************)
(* The vehicle alone: update() and decode_serial_input() called one after  *)
(* the other on one SailBotSim.                                            *)
(***************************************************************************)
NoMark == [direction |-> -1, x |-> 0, y |-> 0]

\* No conversion run is under way.
NoConv == [pc |-> "off", geo |-> <<0, 0>>, cart |-> <<0, 0>>, back |-> <<0, 0>>]

DriverIdle ==
    /\ sink = <<>> /\ clock = 0 /\ lpc = "off" /\ li = 1 /\ outbuf = <<>>
    /\ next_time = 0 /\ current_time = 0 /\ start = 0 /\ npasses = 0
    /\ tickFrom = <<0, 0>> /\ cmdPairs = {<<0, 0>>}
    /\ wpc = "idle" /\ wi = 1 /\ wbuf = <<>> /\ payload = from_bytes(hdlc_decode(<<>>))
    /\ invoked = 0 /\ nwrites = 0 /\ stopInvoked = FALSE

driverVars == <<sink, clock, lpc, li, outbuf, next_time, current_time, start,
                npasses, tickFrom, cmdPairs, wpc, wi, wbuf, payload,
                invoked, nwrites, stopInvoked, conv>>

VInit ==
    /\ sailbots = <<SailBotSim(Addresses[1])>>
    /\ DriverIdle
    /\ mark = NoMark /\ since = 0 /\ moved = 0
    /\ lastOp = [op |-> "init", frame |-> <<>>]
    /\ conv = NoConv

Moving(bot) == bot.rudder_slider # 0 \/ bot.sail_slider # 0

\* update() on the vehicle.
VUpdate ==
    /\ Moving(sailbots[1]) => moved < MaxMoves
    /\ sailbots' = <<update(sailbots[1])>>
    /\ moved' = IF Moving(sailbots[1]) THEN moved + 1 ELSE moved
    /\ since' = IF mark # NoMark /\ since < 37 THEN since + 1 ELSE since
    /\ lastOp' = [op |-> "update", frame |-> encode_serial_output(sailbots'[1])]
    /\ UNCHANGED <<mark, driverVars>>

\* decode_serial_input(frame) on the vehicle.
VDecode(frame) ==
    LET res == decode_serial_input(sailbots[1], frame)
    IN  /\ sailbots' = <<res.bot>>
        /\ lastOp' = [op |-> IF res.raised THEN "raised" ELSE "decode",
                      frame |-> frame]
        /\ mark' = NoMark
        /\ since' = 0
        /\ UNCHANGED <<moved, driverVars>>

\* History only: a run of ticks with both sliders at zero begins here.
VMark ==
    /\ ~Moving(sailbots[1])
    /\ mark' = [direction |-> sailbots[1].direction,
                x |-> sailbots[1].x, y |-> sailbots[1].y]
    /\ since' = 0
    /\ lastOp' = [op |-> "mark", frame |-> <<>>]
    /\ UNCHANGED <<sailbots, moved, driverVars>>

VNext ==
    \/ VUpdate
    \/ \E frame \in InboundBuffers : VDecode(frame)
    \/ VMark

SpecVehicle == VInit /\ [][VNext]_vars

(***************************************************************************)
(* SailBotSimSerialInterface: the thread (run) and a caller of write().    *)
(***************************************************************************)
vehicleVars == <<mark, since, moved, lastOp, conv>>

loopVars == <<lpc, li, outbuf, next_time, current_time, start, npasses, tickFrom>>

writeVars == <<wpc, wi, wbuf, payload, invoked, nwrites, cmdPairs>>

\* After __init__: the vehicles are built and the thread is started.
Init ==
    /\ sailbots = [i \in 1..Len(Addresses) |-> SailBotSim(Addresses[i])]
    /\ sink = <<>> /\ clock = 0
    /\ lpc = "l130" /\ li = 1 /\ outbuf = <<>>
    /\ next_time = 0 /\ current_time = 0 /\ start = 0 /\ npasses = 0
    /\ tickFrom = <<0, 0>> /\ cmdPairs = {<<0, 0>>}
    /\ wpc = "idle" /\ wi = 1 /\ wbuf = <<>> /\ payload = from_bytes(hdlc_decode(<<>>))
    /\ invoked = 0 /\ nwrites = 0 /\ stopInvoked = FALSE
    /\ mark = NoMark /\ since = 0 /\ moved = 0
    /\ lastOp = [op |-> "init", frame |-> <<>>]
    /\ conv = NoConv

\* time.time() moves on.
ClockAdvance ==
    /\ clock < MaxTime
    /\ clock' = clock + 1
    /\ UNCHANGED <<sailbots, sink, loopVars, writeVars, stopInvoked, vehicleVars>>

\* The callback loop as it would be if it took the symbols from the end.
SendLast == /\ sink' = Append(sink, outbuf[Len(outbuf)])
            /\ outbuf' = SubSeq(outbuf, 1, Len(outbuf) - 1)

\* self.callback(byte...): the first symbol of outbuf goes to the sink.
Send == /\ sink' = Append(sink, Head(outbuf))
        /\ outbuf' = Tail(outbuf)

\* lines 130-131: the for loop takes the next vehicle and calls advertise().
RunAdvertise ==
    /\ lpc = "l130"
    /\ IF li <= Len(sailbots)
       THEN /\ outbuf' = advertise(sailbots[li])
            /\ lpc' = "l132"
            /\ UNCHANGED <<next_time, start>>
       ELSE \* line 134
            /\ next_time' = clock + delta_t
            /\ start' = clock
            /\ lpc' = "l137"
            /\ UNCHANGED outbuf
    /\ UNCHANGED <<sailbots, sink, clock, li, current_time, npasses, tickFrom,
                   writeVars, stopInvoked, vehicleVars>>

\* line 132, once per symbol of the frame.
RunAdvSend ==
    /\ lpc = "l132"
    /\ Send
    /\ IF Len(outbuf) = 1
       THEN li' = li + 1 /\ lpc' = "l130"
       ELSE UNCHANGED <<li, lpc>>
    /\ UNCHANGED <<sailbots, clock, next_time, current_time, start, npasses,
                   tickFrom, writeVars, stopInvoked, vehicleVars>>

\* line 137
RunPoll ==
    /\ lpc = "l137"
    /\ current_time' = clock
    /\ lpc' = "l138"
    /\ UNCHANGED <<sailbots, sink, clock, li, outbuf, next_time, start, npasses,
                   tickFrom, writeVars, stopInvoked, vehicleVars>>

\* line 138, and line 139 when the pass is due.
RunCheck ==
    /\ lpc = "l138"
    /\ IF current_time >= next_time
       THEN /\ li' = 1
            /\ npasses' = npasses + 1
            /\ lpc' = "l66"
       ELSE /\ lpc' = "l137"
            /\ UNCHANGED <<li, npasses>>
    /\ UNCHANGED <<sailbots, sink, clock, outbuf, next_time, current_time, start,
                   tickFrom, writeVars, stopInvoked, vehicleVars>>

\* line 66, in sailbot.update() of line 140 (line 143 when no vehicle is left).
Run66 ==
    /\ lpc = "l66"
    /\ IF li > Len(sailbots)
       THEN /\ next_time' = current_time + delta_t
            /\ lpc' = "l137"
            /\ UNCHANGED tickFrom
       ELSE /\ lpc' = IF sailbots[li].controller = "MANUAL" THEN "l58" ELSE "l69"
            /\ tickFrom' = <<sailbots[li].x, sailbots[li].y>>
            /\ UNCHANGED next_time
    /\ UNCHANGED <<sailbots, sink, clock, li, outbuf, current_time, start, npasses,
                   writeVars, stopInvoked, vehicleVars>>

\* One line of state_space_model: `bot` is the vehicle after the line.
TickLine(at, bot, to) ==
    /\ lpc = at
    /\ sailbots' = [sailbots EXCEPT ![li] = bot]
    /\ lpc' = to
    /\ UNCHANGED <<sink, clock, li, outbuf, next_time, current_time, start,
                   npasses, tickFrom, writeVars, stopInvoked, vehicleVars>>

Run58 == TickLine("l58", Line58(sailbots[li]), "l59")

Run59 == TickLine("l59", Line59(sailbots[li]), "l60")

Run60 == TickLine("l60", Line60(sailbots[li]), "l62")

Run62 == TickLine("l62", Line62(sailbots[li]), "l63")

Run63 == TickLine("l63", Line63(sailbots[li]), "l69")

\* line 69: encode_serial_output()
Run69 ==
    /\ lpc = "l69"
    /\ outbuf' = encode_serial_output(sailbots[li])
    /\ lpc' = "l141"
    /\ UNCHANGED <<sailbots, sink, clock, li, next_time, current_time, start,
                   npasses, tickFrom, writeVars, stopInvoked, vehicleVars>>

\* line 141, once per symbol of the frame.
RunSend ==
    /\ lpc = "l141"
    /\ Send
    /\ IF Len(outbuf) = 1
       THEN li' = li + 1 /\ lpc' = "l66"
       ELSE UNCHANGED <<li, lpc>>
    /\ UNCHANGED <<sailbots, clock, next_time, current_time, start, npasses,
                   tickFrom, writeVars, stopInvoked, vehicleVars>>

\* The class has no stop method: asking it to stop raises AttributeError in
\* the caller and changes nothing in the interface.
Stop ==
    /\ ~stopInvoked
    /\ stopInvoked' = TRUE
    /\ UNCHANGED <<sailbots, sink, clock, loopVars, writeVars, vehicleVars>>

\* write(bytes_) is called; line 147 takes the first vehicle.
WriteCall(bytes_) ==
    /\ wpc \in {"idle", "returned", "raised"}
    /\ nwrites < MaxWrites
    /\ nwrites' = nwrites + 1
    /\ wbuf' = bytes_
    /\ wi' = 1
    /\ invoked' = 0
    /\ wpc' = IF Len(sailbots) >= 1 THEN "l72" ELSE "returned"
    /\ UNCHANGED <<sailbots, sink, clock, loopVars, payload, cmdPairs, stopInvoked,
                   vehicleVars>>

\* Where write() goes after decode_serial_input returns for vehicle wi.
NextVehicle == IF wi + 1 <= Len(sailbots) THEN "l72" ELSE "returned"

\* Line 72 as it would be if a failed decode ended the thread as well.
Write72Halting ==
    /\ wpc = "l72"
    /\ invoked' = invoked + 1
    /\ payload' = from_bytes(hdlc_decode(wbuf))
    /\ wpc' = IF payload'.ok THEN "l74" ELSE "raised"
    /\ lpc' = IF payload'.ok THEN lpc ELSE "halted"
    /\ UNCHANGED <<sailbots, sink, clock, li, outbuf, next_time, current_time,
                   start, npasses, tickFrom, wi, wbuf, nwrites, cmdPairs,
                   stopInvoked, vehicleVars>>

\* Line 72 as it would be if a failed decode reset the sliders of the vehicle.
Write72Resetting ==
    /\ wpc = "l72"
    /\ invoked' = invoked + 1
    /\ payload' = from_bytes(hdlc_decode(wbuf))
    /\ wpc' = IF payload'.ok THEN "l74" ELSE "raised"
    /\ sailbots' = IF payload'.ok THEN sailbots
                   ELSE [sailbots EXCEPT ![wi].rudder_slider = 0,
                                         ![wi].sail_slider = 0]
    /\ UNCHANGED <<sink, clock, loopVars, wi, wbuf, nwrites, cmdPairs,
                   stopInvoked, vehicleVars>>

\* line 72: the decode; a failure propagates out of write().
Write72 ==
    /\ wpc = "l72"
    /\ invoked' = invoked + 1
    /\ payload' = from_bytes(hdlc_decode(wbuf))
    /\ wpc' = IF payload'.ok THEN "l74" ELSE "raised"
    /\ UNCHANGED <<sailbots, sink, clock, loopVars, wi, wbuf, nwrites, cmdPairs,
                   stopInvoked, vehicleVars>>

\* lines 74-75
Write74 ==
    /\ wpc = "l74"
    /\ IF AddressMatches(sailbots[wi], payload) /\ IsMove(payload)
       THEN wpc' = "l76" /\ UNCHANGED wi
       ELSE wpc' = NextVehicle /\ wi' = wi + 1
    /\ UNCHANGED <<sailbots, sink, clock, loopVars, wbuf, payload, invoked, nwrites,
                   cmdPairs, stopInvoked, vehicleVars>>

\* line 76
Write76 ==
    /\ wpc = "l76"
    /\ sailbots' = [sailbots EXCEPT ![wi] = Line76(sailbots[wi])]
    /\ cmdPairs' = cmdPairs \cup {<<Signed(payload.values[1]), Signed(payload.values[2])>>}
    /\ wpc' = "l77"
    /\ UNCHANGED <<sink, clock, loopVars, wi, wbuf, payload, invoked, nwrites,
                   stopInvoked, vehicleVars>>

\* line 77
Write77 ==
    /\ wpc = "l77"
    /\ sailbots' = [sailbots EXCEPT ![wi] = Line77(sailbots[wi], payload)]
    /\ wpc' = "l78"
    /\ UNCHANGED <<sink, clock, loopVars, wi, wbuf, payload, invoked, nwrites,
                   cmdPairs, stopInvoked, vehicleVars>>

\* Line 78 as it would be if write() acknowledged the command to the sink.
Write78Echoing ==
    /\ wpc = "l78"
    /\ sailbots' = [sailbots EXCEPT ![wi] = Line78(sailbots[wi], payload)]
    /\ sink' = Append(sink, <<0>>)
    /\ wpc' = NextVehicle
    /\ wi' = wi + 1
    /\ UNCHANGED <<clock, loopVars, wbuf, payload, invoked, nwrites,
                   cmdPairs, stopInvoked, vehicleVars>>

\* line 78
Write78 ==
    /\ wpc = "l78"
    /\ sailbots' = [sailbots EXCEPT ![wi] = Line78(sailbots[wi], payload)]
    /\ wpc' = NextVehicle
    /\ wi' = wi + 1
    /\ UNCHANGED <<sink, clock, loopVars, wbuf, payload, invoked, nwrites,
                   cmdPairs, stopInvoked, vehicleVars>>

RunStep ==
    \/ RunAdvertise \/ RunAdvSend \/ RunPoll \/ RunCheck \/ Run66
    \/ Run58 \/ Run59 \/ Run60 \/ Run62 \/ Run63 \/ Run69 \/ RunSend

WriteStep == Write72 \/ Write74 \/ Write76 \/ Write77 \/ Write78

Next ==
    \/ ClockAdvance
    \/ RunStep
    \/ \E bytes_ \in WriteBuffers : WriteCall(bytes_)
    \/ WriteStep
    \/ Stop

Spec == Init /\ [][Next]_vars

\* The thread and a caller that only asks it to stop; the thread is
\* scheduled again and again (it is never starved).
StopNext ==
    \/ ClockAdvance
    \/ RunStep
    \/ Stop

StopSpec == Init /\ [][StopNext]_vars /\ WF_vars(RunStep)

(***************************************************************************)
(* Properties                                                              *)
(***************************************************************************)
PassSteps == {"l66", "l58", "l59", "l60", "l62", "l63", "l69", "l141"}

\* C1: fixed-phase scheduling. The first due time is start + delta_t, after
\* every pass the next due time is the previous one plus delta_t, so that
\* the k-th pass is due at start + k * delta_t, and no pass runs before its
\* due time.
C1_FixedPhase ==
    /\ lpc \in {"l137", "l138"} => next_time = start + (npasses + 1) * delta_t
    /\ lpc \in PassSteps =>
          /\ next_time = start + npasses * delta_t
          /\ current_time >= next_time
          /\ clock >= next_time

\* C2: once stop has been invoked, the scheduling loop eventually halts.
LoopHalted == lpc = "halted"

C2_StopHalts == stopInvoked ~> LoopHalted

\* C3: a write() with a malformed buffer never lets the failure escape to
\* its caller, and decode_serial_input is called on every vehicle.
C3_WriteNeverRaises ==
    /\ wpc # "raised"
    /\ wpc \in {"returned", "raised"} => invoked = Len(sailbots)

\* C4: a step of a write() call whose buffer fails to decode leaves every
\* field of every vehicle as it was.
C4_MalformedLeavesVehicles ==
    [][(/\ (WriteStep \/ \E b \in WriteBuffers : WriteCall(b))
        /\ wbuf' \in MalformedBuffers)
       => sailbots' = sailbots]_vars

\* C4's case: a write() of a malformed buffer has raised while the sliders of
\* the vehicle were not zero (an earlier command had set them).
C4_Witness ==
    /\ wpc = "raised"
    /\ wbuf \in MalformedBuffers
    /\ sailbots[1].rudder_slider = -56
    /\ sailbots[1].sail_slider = 50

\* C5: every tick of a vehicle adds to (x, y) a (rudder, sail) pair that one
\* single move command wrote (or the initial (0, 0)).
C5_NoTornInputs ==
    lpc = "l60" =>
        <<(sailbots[li].x - tickFrom[1]) \div 1000,
          (sailbots[li].y - tickFrom[2]) \div 1000>> \in cmdPairs

\* Well-formed frames whose destination is not the address of the vehicle.
MisAddressed ==
    {MoveFrame(OtherAddress, 200, 127), MoveFrame(GATEWAY_ADDRESS_DEFAULT, 128, 0),
     RgbFrame(OtherAddress)}

\* C6: decode_serial_input with a well-formed frame whose destination differs
\* from the address of the vehicle leaves rudder_slider, sail_slider and
\* controller unchanged, whatever the payload type and values.
C6_OtherAddressIgnored ==
    [][\A f \in MisAddressed :
          (lastOp'.frame = f /\ VDecode(f)) =>
              /\ sailbots'[1].rudder_slider = sailbots[1].rudder_slider
              /\ sailbots'[1].sail_slider = sailbots[1].sail_slider
              /\ sailbots'[1].controller = sailbots[1].controller]_vars

\* C6's case: a mis-addressed frame has just been decoded by a vehicle whose
\* sliders an earlier command had set.
C6_Witness ==
    /\ lastOp.op = "decode"
    /\ lastOp.frame \in MisAddressed
    /\ sailbots[1].rudder_slider = -56
    /\ sailbots[1].sail_slider = 50

\* The move command for the vehicle that carries the bytes p.
MatchingMove == [p \in RawPairs |-> MoveFrame(Addresses[1], p[1], p[2])]

\* C7: an address-matching move command with bytes left_x, right_y sets
\* rudder_slider to left_x - 256 if left_x > 127 else left_x and sail_slider
\* to right_y - 256 if right_y > 127 else right_y, and both sliders stay
\* within -128..127 in every reachable state.
C7_SignedSliders ==
    /\ [][\A p \in RawPairs :
             (lastOp'.frame = MatchingMove[p] /\ VDecode(MatchingMove[p])) =>
                 /\ sailbots'[1].rudder_slider =
                        (IF p[1] > 127 THEN p[1] - 256 ELSE p[1])
                 /\ sailbots'[1].sail_slider =
                        (IF p[2] > 127 THEN p[2] - 256 ELSE p[2])]_vars
    /\ [](\A i \in 1..Len(sailbots) :
             /\ sailbots[i].rudder_slider \in -128..127
             /\ sailbots[i].sail_slider \in -128..127)

\* C7's case: the move command (128, 127) has just been decoded, the one
\* with a byte on each side of the sign boundary.
C7_Witness ==
    /\ lastOp.op = "decode"
    /\ lastOp.frame = MatchingMove[<<128, 127>>]
    /\ sailbots[1].rudder_slider = -128
    /\ sailbots[1].sail_slider = 127

\* C8: immediately after every tick of a vehicle, wind_angle equals
\* (true_wind_angle - direction) mod 360 for the direction the tick produced.
C8_WindAngleAfterTick ==
    lastOp.op = "update" =>
        sailbots[1].wind_angle = (true_wind_angle - sailbots[1].direction) % 360

\* C8's case: a tick has just turned the heading to 40 degrees, where the
\* difference to the true wind angle is negative before the modulo.
C8_Witness ==
    /\ lastOp.op = "update"
    /\ sailbots[1].direction = 40
    /\ sailbots[1].wind_angle = 350

\* C9: from a vehicle state with both sliders at zero and with no command in
\* between, after exactly 36 ticks direction and (x, y) are what they were,
\* and after 1..35 ticks direction differs from what it was.
C9_FullTurn ==
    mark # NoMark =>
        /\ since = 36 => /\ sailbots[1].direction = mark.direction
                         /\ sailbots[1].x = mark.x
                         /\ sailbots[1].y = mark.y
        /\ since \in 1..35 => sailbots[1].direction # mark.direction

\* C9's case: 36 ticks have run since a state the vehicle reached by moving
\* away from its initial position and heading.
C9_Witness ==
    /\ mark # NoMark
    /\ since = 36
    /\ mark.direction # 0
    /\ <<mark.x, mark.y>> # convert_geographical_to_cartesian(initial_latitude,
                                                               initial_longitude)

\* The frames of the sink: frame k lies between the flags 2k - 1 and 2k.
SinkFlags == {i \in 1..Len(sink) : sink[i] = HDLC_FLAG}

FlagPos(k) == CHOOSE i \in SinkFlags : Cardinality({j \in SinkFlags : j <= i}) = k

SinkFrames == Cardinality(SinkFlags) \div 2

SinkPayload(k) == from_bytes(hdlc_decode(SubSeq(sink, FlagPos(2 * k - 1), FlagPos(2 * k))))

\* C10: for every vehicle, in collection order, exactly one advertisement
\* frame goes to the sink, and all advertisement bytes are in the sink before
\* the first pass of updates, that is before any telemetry byte.
C10_AdvertiseFirst ==
    /\ \A k \in 1..SinkFrames :
          /\ SinkPayload(k).ok
          /\ k <= Len(sailbots) =>
                 /\ SinkPayload(k).payload_type = ADVERTISEMENT
                 /\ SinkPayload(k).header.source = IntHex(sailbots[k].address)
          /\ k > Len(sailbots) => SinkPayload(k).payload_type # ADVERTISEMENT
    /\ npasses > 0 => SinkFrames >= Len(sailbots)
    /\ npasses = 0 =>
          /\ Cardinality(SinkFlags) <= 2 * Len(sailbots)
          /\ Cardinality(SinkFlags) = 2 * Len(sailbots) =>
                 sink[Len(sink)] = HDLC_FLAG

\* C10's case: a telemetry frame has followed the advertisements to the sink.
C10_Witness ==
    /\ SinkFrames > Len(sailbots)
    /\ SinkPayload(Len(sailbots) + 1).payload_type = SAILBOT_DATA

\* The symbols of the sink after the last flag that opens a frame.
SinkTail == SubSeq(sink, FlagPos(Cardinality(SinkFlags)), Len(sink))

\* C11: the sink receives a concatenation of whole frames: the symbols of a
\* frame arrive in encoding order with nothing between two frames, the
\* frames of a pass arrive in collection order, and the frames of an earlier
\* pass arrive before those of a later pass.
C11_WholeFrames ==
    /\ \A k \in 1..SinkFrames :
          /\ SinkPayload(k).ok
          /\ FlagPos(2 * k - 1) = (IF k = 1 THEN 1 ELSE FlagPos(2 * k - 2) + 1)
    /\ Cardinality(SinkFlags) % 2 = 1 =>
          /\ lpc \in {"l132", "l141"}
          /\ FlagPos(Cardinality(SinkFlags)) =
                 (IF SinkFrames = 0 THEN 1 ELSE FlagPos(2 * SinkFrames) + 1)
          /\ from_bytes(hdlc_decode(SinkTail \o outbuf)).ok
    /\ Cardinality(SinkFlags) % 2 = 0 =>
          sink = <<>> \/ sink[Len(sink)] = HDLC_FLAG
    /\ \A k \in (Len(sailbots) + 1)..SinkFrames :
          /\ SinkPayload(k).payload_type = SAILBOT_DATA
          /\ SinkPayload(k).header.source =
                 IntHex(sailbots[((k - 1) % Len(sailbots)) + 1].address)
          /\ SinkPayload(k).values[1] = (10 * ((k - 1) \div Len(sailbots))) % 360

\* C11's case: the frames of two passes have followed the advertisement.
C11_Witness ==
    /\ SinkFrames = 3 * Len(sailbots)
    /\ SinkPayload(3 * Len(sailbots)).values[1] = 20

\* C12: with no inbound command, each pass emits exactly one telemetry frame
\* per vehicle, and the frame of the k-th pass carries the heading
\* (initial heading + 10 * k) mod 360 and the initial position.
C12_QuietTelemetry ==
    /\ lpc \in {"l137", "l138"} =>
          /\ Cardinality(SinkFlags) = 2 * SinkFrames
          /\ SinkFrames = Len(sailbots) * (1 + npasses)
    /\ \A k \in (Len(sailbots) + 1)..SinkFrames :
          LET bot0 == SailBotSim(sailbots[((k - 1) % Len(sailbots)) + 1].address)
              pass == (k - 1) \div Len(sailbots)
          IN  /\ SinkPayload(k).payload_type = SAILBOT_DATA
              /\ SinkPayload(k).values[1] = (bot0.direction + 10 * pass) % 360
              /\ SinkPayload(k).values[2] = Trunc(bot0.latitude, 10)
              /\ SinkPayload(k).values[3] = Trunc(bot0.longitude, 10)

\* C12's case: two passes have completed with no inbound command, and the
\* loop is polling again.
C12_Witness ==
    /\ nwrites = 0
    /\ lpc = "l137"
    /\ npasses = 2
    /\ SinkFrames = 3 * Len(sailbots)

\* The thread and a caller of write() who never asks it to stop; the thread
\* is never starved.
InboundNext ==
    \/ ClockAdvance
    \/ RunStep
    \/ \E bytes_ \in WriteBuffers : WriteCall(bytes_)
    \/ WriteStep

FairSpec == Init /\ [][InboundNext]_vars /\ WF_vars(RunStep)

\* A pass is due: the loop is polling and the clock has reached next_time.
PassDue == lpc \in {"l137", "l138"} /\ clock >= next_time

\* C13: whatever write() is handed and wherever it interleaves, the loop
\* keeps running: every due time is eventually followed by a pass.
C13_LoopResilient == PassDue ~> (lpc = "l66")

\* C13's case: a pass is under way while the caller of write() holds the
\* failure of a malformed buffer, its second call after a move command.
C13_Witness ==
    /\ wpc = "raised"
    /\ nwrites = 2
    /\ sailbots[1].rudder_slider = -56
    /\ lpc = "l66"
    /\ npasses = 2

(***************************************************************************)
(* The two conversions alone, on offsets from the origin in 1e-9 degree    *)
(* and on x, y in micrometres: the subtraction of the origin in lines      *)
(* 108-109 has been done on the input, the addition in lines 102-103 is    *)
(* left out of the output.                                                 *)
(***************************************************************************)
\* Latitude and longitude offsets 1..GridSteps strides either side of the origin.
GridSteps == 6

\* x = (dlon * earth_radius_km * cos_phi_0 * math.pi) / 0.180
\* y = (dlat * earth_radius_km * math.pi) / 0.180
\* (1e-9 degree times km, over 180, is micrometres)
convert_geographical_to_cartesian_fine(dlat, dlon) ==
    <<MulDiv(MulDiv(MulDiv(dlon, earth_radius_km, 180), cos_phi_0, 100000000),
             math_pi, 10000000),
      MulDiv(MulDiv(dlat, earth_radius_km, 180), math_pi, 10000000)>>

\* The conversion back as it would be without the division by cos_phi_0.
convert_cartesian_to_geographical_flat(x, y) ==
    <<MulDiv(MulDiv(y, 10000000, math_pi), 180, earth_radius_km),
      MulDiv(MulDiv(x, 10000000, math_pi), 180, earth_radius_km)>>

\* dlat = ((y * 0.180) / math.pi) / earth_radius_km
\* dlon = ((x * 0.180) / math.pi / cos_phi_0) / earth_radius_km
\* (micrometres times 180, over km, is 1e-9 degree)
convert_cartesian_to_geographical_fine(x, y) ==
    <<MulDiv(MulDiv(y, 10000000, math_pi), 180, earth_radius_km),
      MulDiv(MulDiv(MulDiv(x, 10000000, math_pi), 100000000, cos_phi_0),
             180, earth_radius_km)>>

\* The offsets given to the conversions: a grid around the origin (up to
\* about 0.0075 degree at GridSteps = 6), the origin itself, and the
\* offsets of the initial position of a vehicle.
GeoOffsets ==
    {k * 1234567 + 89 : k \in -GridSteps..GridSteps}
    \cup {0, (initial_latitude - origin_coord_latitude) * 100,
          (initial_longitude - origin_coord_longitude) * 100}

CInit ==
    /\ sailbots = <<SailBotSim(Addresses[1])>>
    /\ DriverIdle
    /\ mark = NoMark /\ since = 0 /\ moved = 0
    /\ lastOp = [op |-> "init", frame |-> <<>>]
    /\ conv \in {[pc |-> "geo", geo |-> <<dlat, dlon>>, cart |-> <<0, 0>>,
                  back |-> <<0, 0>>] : dlat \in GeoOffsets, dlon \in GeoOffsets}

\* convert_geographical_to_cartesian(latitude, longitude)
CToCartesian ==
    /\ conv.pc = "geo"
    /\ conv' = [conv EXCEPT
                   !.pc = "cart",
                   !.cart = convert_geographical_to_cartesian_fine(conv.geo[1],
                                                                   conv.geo[2])]
    /\ UNCHANGED <<sailbots, sink, clock, loopVars, writeVars, stopInvoked,
                   mark, since, moved, lastOp>>

\* convert_cartesian_to_geographical(x, y)
CToGeographical ==
    /\ conv.pc = "cart"
    /\ conv' = [conv EXCEPT
                   !.pc = "back",
                   !.back = convert_cartesian_to_geographical_fine(conv.cart[1],
                                                                   conv.cart[2])]
    /\ UNCHANGED <<sailbots, sink, clock, loopVars, writeVars, stopInvoked,
                   mark, since, moved, lastOp>>

CNext == CToCartesian \/ CToGeographical

SpecConvert == CInit /\ [][CNext]_vars

\* C14: converting a position near the origin to cartesian coordinates and
\* back gives the position again within 1e-9 degree.
C14_RoundTrip ==
    conv.pc = "back" =>
        /\ conv.back[1] - conv.geo[1] \in -1..1
        /\ conv.back[2] - conv.geo[2] \in -1..1

\* C14's case: the initial position of a vehicle has been converted to
\* cartesian coordinates, 712.2 m north and 457.8 m east of the origin, and
\* back.
C14_Witness ==
    /\ conv.pc = "back"
    /\ conv.geo = <<(initial_latitude - origin_coord_latitude) * 100,
                    (initial_longitude - origin_coord_longitude) * 100>>
    /\ conv.cart[1] \div 100000 = 4578
    /\ conv.cart[2] \div 100000 = 7122

(***************************************************************************)
(* A vehicle built with any address: SailBotSim(address) on fixed-width    *)
(* hex strings other than the one SailBotSimSerialInterface uses.          *)
(***************************************************************************)
\* An address with a leading zero.
LeadingZeroAddress ==
    <<"0","2","3","4","5","6","7","8","9","0","1","2","3","4","5","6">>

\* An address with upper-case hex digits.
UpperCaseAddress ==
    <<"A","B","C","D","E","F","7","8","9","0","1","2","3","4","5","6">>

AnyAddresses == {Addresses[1], LeadingZeroAddress, UpperCaseAddress}

\* The move commands sent to such a vehicle: to each of the addresses and
\* to an address no vehicle has, with two different pairs of bytes.
AddressedMove ==
    [d \in AnyAddresses \cup {OtherAddress}, p \in {<<200, 50>>, <<50, 200>>}
        |-> MoveFrame(d, p[1], p[2])]

AInit ==
    /\ \E address \in AnyAddresses : sailbots = <<SailBotSim(address)>>
    /\ DriverIdle
    /\ mark = NoMark /\ since = 0 /\ moved = 0
    /\ lastOp = [op |-> "init", frame |-> <<>>]
    /\ conv = NoConv

ANext ==
    \/ VUpdate
    \/ \E k \in DOMAIN AddressedMove : VDecode(AddressedMove[k])

SpecAddress == AInit /\ [][ANext]_vars

\* C15: for every vehicle address and every well-formed move command, the
\* command is applied to the vehicle if and only if the numeric destination
\* of the frame equals the numeric value of the address of the vehicle.
C15_NumericMatch ==
    [][\A k \in DOMAIN AddressedMove :
          (lastOp'.frame = AddressedMove[k] /\ VDecode(AddressedMove[k])) =>
              IF IntHex(k[1]) = IntHex(sailbots[1].address)
              THEN /\ sailbots'[1].rudder_slider =
                          (IF k[2][1] > 127 THEN k[2][1] - 256 ELSE k[2][1])
                   /\ sailbots'[1].sail_slider =
                          (IF k[2][2] > 127 THEN k[2][2] - 256 ELSE k[2][2])
              ELSE /\ sailbots'[1].rudder_slider = sailbots[1].rudder_slider
                   /\ sailbots'[1].sail_slider = sailbots[1].sail_slider]_vars

\* C16: in every reachable state of a vehicle, the initial state included,
\* direction and wind_angle are both within 0..359.
C16_AnglesInRange ==
    \A i \in 1..Len(sailbots) :
        /\ sailbots[i].direction \in 0..359
        /\ sailbots[i].wind_angle \in 0..359

\* C16's case: a tick has taken the heading from 350 round to 0, and the
\* wind angle is back at the true wind angle.
C16_Witness ==
    /\ lastOp.op = "update"
    /\ mark # NoMark
    /\ since = 36
    /\ sailbots[1].direction = 0
    /\ sailbots[1].wind_angle = true_wind_angle

\* C17: in every reachable vehicle state, the state right after construction
\* included, wind_angle equals (true_wind_angle - direction) mod 360.
C17_WindAngleDerived ==
    \A i \in 1..Len(sailbots) :
        sailbots[i].wind_angle = (true_wind_angle - sailbots[i].direction) % 360

\* C18: the steps of the thread (the lines of a tick, encode_serial_output,
\* advertise, the sending of the symbols) leave rudder_slider, sail_slider
\* and controller of every vehicle unchanged, so that the sliders keep the
\* value of the last command across the ticks.
C18_OnlyDecodeSetsSliders ==
    [][RunStep =>
          \A i \in 1..Len(sailbots) :
              /\ sailbots'[i].rudder_slider = sailbots[i].rudder_slider
              /\ sailbots'[i].sail_slider = sailbots[i].sail_slider
              /\ sailbots'[i].controller = sailbots[i].controller]_vars

\* C18's case: a tick has moved the vehicle by the sliders of a completed
\* move command, its frame is being sent, and the sliders still hold.
C18_Witness ==
    /\ wpc = "returned"
    /\ lpc = "l141"
    /\ sailbots[1].rudder_slider = -56
    /\ sailbots[1].sail_slider = 50
    /\ <<sailbots[1].x - tickFrom[1], sailbots[1].y - tickFrom[2]>>
           = <<-56000, 50000>>

\* A well-formed frame for the vehicle whose payload is not a move command.
OwnRgbFrame == RgbFrame(Addresses[1])

\* C19: a well-formed frame addressed to the vehicle whose payload is not a
\* move command is ignored: decode_serial_input raises nothing and leaves
\* every field of the vehicle unchanged.
C19_OtherPayloadIgnored ==
    [][(lastOp'.frame = OwnRgbFrame /\ VDecode(OwnRgbFrame)) =>
          /\ lastOp'.op = "decode"
          /\ sailbots' = sailbots]_vars

\* C19's case: such a frame has just been decoded by a vehicle that an
\* earlier command and a tick had moved.
C19_Witness ==
    /\ lastOp.op = "decode"
    /\ lastOp.frame = OwnRgbFrame
    /\ sailbots[1].rudder_slider = -56
    /\ sailbots[1].sail_slider = 50
    /\ moved = 1

\* C20: the sink is invoked only from the thread of run(), one symbol per
\* invocation: no step of write() adds to the sink or changes x, y, latitude,
\* longitude, direction or wind_angle of a vehicle, wherever it interleaves.
C20_WriteLeavesSinkAndPosition ==
    [][/\ sink' # sink =>
             /\ RunAdvSend \/ RunSend
             /\ Len(sink') = Len(sink) + 1
             /\ SubSeq(sink', 1, Len(sink)) = sink
       /\ (WriteStep \/ \E bytes_ \in WriteBuffers : WriteCall(bytes_)) =>
             /\ sink' = sink
             /\ \A i \in 1..Len(sailbots) :
                   /\ sailbots'[i].x = sailbots[i].x
                   /\ sailbots'[i].y = sailbots[i].y
                   /\ sailbots'[i].latitude = sailbots[i].latitude
                   /\ sailbots'[i].longitude = sailbots[i].longitude
                   /\ sailbots'[i].direction = sailbots[i].direction
                   /\ sailbots'[i].wind_angle = sailbots[i].wind_angle]_vars

\* C20's case: a move command has been applied by write() while the frame
\* of a pass was on its way to the sink.
C20_Witness ==
    /\ wpc = "returned"
    /\ sailbots[1].rudder_slider = -56
    /\ sailbots[1].sail_slider = 50
    /\ lpc = "l141"
    /\ sailbots[1].x = tickFrom[1]
    /\ Cardinality(SinkFlags) % 2 = 1

====
